---- MODULE Spec2Model ----
(***************************************************************************)
(* Model of tradexa_assignment_2.py: the validation rules, the insertion   *)
(* path DatabaseManager._insert_record with its class-wide lock, the batch  *)
(* orchestration of DatabaseManager.simulate_insertions on a thread pool,   *)
(* and main's top-level reporting.                                          *)
(***************************************************************************)
EXTENDS Integers, Sequences, FiniteSets, TLC

(***************************************************************************)
(* Python values.  A value is a record [t, n, s]: t is the Python type,     *)
(* n the numeric payload (int, bool as 0/1, float), s the characters of a   *)
(* str.  "missing" is an absent dict key, "none" is None, "bigint" is an    *)
(* int outside the signed 64-bit range (n keeps its sign).                  *)
(***************************************************************************)
Val(t, n, s) == [t |-> t, n |-> n, s |-> s]
Missing == Val("missing", 0, <<>>)
PyNone == Val("none", 0, <<>>)
PyInt(n) == Val("int", n, <<>>)
BigInt == Val("bigint", 1, <<>>)
PyBool(b) == Val("bool", IF b THEN 1 ELSE 0, <<>>)
PyFloat(n) == Val("float", n, <<>>)
PyStr(s) == Val("str", 0, s)

\* dict.get(key): the value, or None when the key is absent (lines 12, 35, 50).
Get(rec, key) == IF rec[key].t = "missing" THEN PyNone ELSE rec[key]

\* dict.get(key, ''): the value, or '' when the key is absent (lines 15, 19, 31).
GetOrEmpty(rec, key) == IF rec[key].t = "missing" THEN PyStr(<<>>) ELSE rec[key]

\* isinstance(v, int): bool is a subclass of int.
IsInstanceInt(v) == v.t \in {"int", "bool", "bigint"}

(***************************************************************************)
(* Character classes of the regular expressions.                           *)
(***************************************************************************)
Letters == {"A", "l", "b", "c", "d"}
Digits == {"0", "1", "5"}
Whitespace == {" ", "\t", "\n"}

\* str.strip(): drop leading and trailing whitespace.
RECURSIVE LStrip(_)
LStrip(s) == IF s # <<>> /\ Head(s) \in Whitespace THEN LStrip(Tail(s)) ELSE s

RECURSIVE RStrip(_)
RStrip(s) ==
    IF s # <<>> /\ s[Len(s)] \in Whitespace THEN RStrip(SubSeq(s, 1, Len(s) - 1)) ELSE s

Strip(s) == RStrip(LStrip(s))

AllIn(s, class) == \A i \in 1..Len(s) : s[i] \in class

\* A faulty MatchUserName: whitespace is not in the character class.
MatchUserNameLettersOnly(s) == s # <<>> /\ AllIn(s, Letters)

\* re.match(r'^[A-Za-z\s]+$', name), line 16.  $ also matches before one
\* trailing newline.
UserNameClass == Letters \cup Whitespace
MatchUserName(s) ==
    \/ s # <<>> /\ AllIn(s, UserNameClass)
    \/ Len(s) >= 2 /\ s[Len(s)] = "\n" /\ AllIn(SubSeq(s, 1, Len(s) - 1), UserNameClass)

\* re.match(r'^[A-Za-z0-9\s]+$', name), line 32.
ProductNameClass == Letters \cup Digits \cup Whitespace
MatchProductName(s) ==
    \/ s # <<>> /\ AllIn(s, ProductNameClass)
    \/ Len(s) >= 2 /\ s[Len(s)] = "\n" /\ AllIn(SubSeq(s, 1, Len(s) - 1), ProductNameClass)

\* re.match(r'^[a-zA-Z0-9. %+-]+@[a-zA-Z-0-9.-]+\.[a-zA-Z]{2,}$', email), lines 20-21.
EmailLocalClass == Letters \cup Digits \cup {".", " ", "%", "+", "-"}
EmailDomainClass == Letters \cup Digits \cup {".", "-"}
MatchEmailBody(s) ==
    \E at \in 1..Len(s) : \E dot \in 1..Len(s) :
        /\ s[at] = "@"
        /\ s[dot] = "."
        /\ at >= 2 /\ AllIn(SubSeq(s, 1, at - 1), EmailLocalClass)
        /\ dot >= at + 2 /\ AllIn(SubSeq(s, at + 1, dot - 1), EmailDomainClass)
        /\ Len(s) - dot >= 2 /\ AllIn(SubSeq(s, dot + 1, Len(s)), Letters)
MatchEmail(s) ==
    \/ MatchEmailBody(s)
    \/ Len(s) >= 2 /\ s[Len(s)] = "\n" /\ MatchEmailBody(SubSeq(s, 1, Len(s) - 1))

(***************************************************************************)
(* float(price), lines 36-41.  The result is [res, neg]: res is "ok",       *)
(* "TypeError" or "ValueError"; neg tells whether the float is below zero.  *)
(* A str is stripped, may carry one sign, and is digits with at most one    *)
(* dot and at least one digit; -0 is not below zero.                        *)
(***************************************************************************)
Count(s, c) == Cardinality({i \in 1..Len(s) : s[i] = c})
IsNumeral(s) ==
    /\ AllIn(s, Digits \cup {"."})
    /\ Count(s, ".") <= 1
    /\ \E i \in 1..Len(s) : s[i] \in Digits
IsZeroNumeral(s) == \A i \in 1..Len(s) : s[i] \in {"0", "."}
ParseFloat(s) ==
    LET t == Strip(s)
        signed == t # <<>> /\ Head(t) \in {"-", "+"}
        body == IF signed THEN Tail(t) ELSE t
    IN  IF IsNumeral(body)
        THEN [res |-> "ok", neg |-> signed /\ Head(t) = "-" /\ ~IsZeroNumeral(body)]
        ELSE [res |-> "ValueError", neg |-> FALSE]
\* A faulty ToFloat: a number counts as negative unless it is above zero.
ToFloatZeroNegative(v) ==
    CASE v.t \in {"int", "bool", "float", "bigint"} -> [res |-> "ok", neg |-> v.n <= 0]
      [] v.t = "str" -> ParseFloat(v.s)
      [] OTHER -> [res |-> "TypeError", neg |-> FALSE]

ToFloat(v) ==
    CASE v.t \in {"int", "bool", "float", "bigint"} -> [res |-> "ok", neg |-> v.n < 0]
      [] v.t = "str" -> ParseFloat(v.s)
      [] OTHER -> [res |-> "TypeError", neg |-> FALSE]

(***************************************************************************)
(* Validation results: [code, value].  code "ok" is the None return, code   *)
(* "raise" an exception leaving the function (value is unused), any other   *)
(* code is the returned message's text with the value it names.             *)
(***************************************************************************)
Pass == [code |-> "ok", value |-> PyNone]
Raise == [code |-> "raise", value |-> PyNone]
Err(code, v) == [code |-> code, value |-> v]

\* A faulty PositiveInt: the sign is not looked at.
AnyInt(v) == IsInstanceInt(v)

\* isinstance(x, int) and x > 0: the id rule shared by the three kinds.
PositiveInt(v) == IsInstanceInt(v) /\ v.n > 0

\* ValidationRules.validate_user
validate_user(user) ==
    IF ~PositiveInt(Get(user, "id")) THEN Err("Invalid user ID", Get(user, "id"))
    ELSE IF GetOrEmpty(user, "name").t # "str" THEN Raise
    ELSE LET name == Strip(GetOrEmpty(user, "name").s) IN
    IF name = <<>> \/ ~MatchUserName(name) THEN Err("Invalid name", PyStr(name))
    ELSE IF GetOrEmpty(user, "email").t # "str" THEN Raise
    ELSE LET email == Strip(GetOrEmpty(user, "email").s) IN
    IF email = <<>> \/ ~MatchEmail(email) THEN Err("Invalid email", PyStr(email))
    ELSE Pass

\* ValidationRules.validate_product
validate_product(product) ==
    IF ~PositiveInt(Get(product, "id")) THEN Err("Invalid product ID", Get(product, "id"))
    ELSE IF GetOrEmpty(product, "name").t # "str" THEN Raise
    ELSE LET name == Strip(GetOrEmpty(product, "name").s) IN
    IF name = <<>> \/ ~MatchProductName(name) THEN Err("Invalid product name", PyStr(name))
    ELSE LET price == Get(product, "price")
             f == ToFloat(price) IN
    IF f.res # "ok" THEN Err("Invalid price: Must be a number", price)
    ELSE IF f.neg THEN Err("Invalid price: Price must be non-negative", price)
    ELSE Pass

\* ValidationRules.validate_order
validate_order(order) ==
    IF ~PositiveInt(Get(order, "id")) THEN Err("Invalid order ID", Get(order, "id"))
    ELSE LET user_id == Get(order, "user_id") IN
    IF ~PositiveInt(user_id) THEN Err("Invalid user ID", user_id)
    ELSE LET product_id == Get(order, "user_id") IN
    IF ~PositiveInt(product_id) THEN Err("Invalid product ID", product_id)
    ELSE LET quantity == Get(order, "quantity") IN
    IF ~IsInstanceInt(quantity) THEN Err("Invalid quanitty", quantity)
    ELSE Pass

(***************************************************************************)
(* Records.  A record is a dict over the columns of its kind; an absent key *)
(* holds Missing.                                                           *)
(***************************************************************************)
User(id, name, email) == [id |-> id, name |-> name, email |-> email]
Product(id, name, price) == [id |-> id, name |-> name, price |-> price]
Order(id, user_id, product_id, quantity) ==
    [id |-> id, user_id |-> user_id, product_id |-> product_id, quantity |-> quantity]

Kinds == <<"users", "products", "orders">>
KindSet == {"users", "products", "orders"}

\* The validation function simulate_insertions passes with each kind
\* (lines 173, 185, 197).
ValidationFunc(k, record) ==
    CASE k = "users" -> validate_user(record)
      [] k = "products" -> validate_product(record)
      [] k = "orders" -> validate_order(record)

\* Largest number of records in one batch.
BatchSize == 2
\* Largest number of records in the three batches of one run together.
MaxRecords == 4
\* Storage-layer failures (sqlite3.Error) injected in one run.
MaxFaults == 1

Alice == <<"A", "l">>
AliceMail == <<"A", "l", "@", "b", ".", "c", "d">>

\* The records a batch is drawn from: a valid record, records that fail a
\* validation rule, and records whose processing raises.
UserSamples ==
    { User(PyInt(1), PyStr(Alice), PyStr(AliceMail)),
      User(PyInt(1), PyStr(<<>>), PyStr(AliceMail)),
      User(PyInt(1), PyNone, PyStr(AliceMail)) }
ProductSamples ==
    { Product(PyInt(1), PyStr(<<"A", "l", " ", "1">>), PyFloat(5)),
      Product(PyInt(1), PyStr(<<"A", "l">>), PyFloat(-5)),
      Product(PyInt(1), PyInt(5), PyFloat(5)) }
OrderSamples ==
    { Order(PyInt(1), PyInt(1), PyInt(1), PyInt(1)),
      Order(PyInt(1), PyInt(1), PyInt(-1), PyInt(0)),
      Order(BigInt, PyInt(1), PyInt(1), PyInt(1)) }
Samples(k) ==
    CASE k = "users" -> UserSamples
      [] k = "products" -> ProductSamples
      [] k = "orders" -> OrderSamples
\* The batches of n records of kind k.
Batches(k, n) == [1..n -> Samples(k)]

\* ThreadPoolExecutor(max_workers=10), line 166.
max_workers == 10

(***************************************************************************)
(* State.                                                                   *)
(*   setup     outcome of the _create_tables call: "pending", "ok", "error" *)
(*   pc        main thread: "create_tables", "submit", "collect",           *)
(*             "shutdown" (an exception leaves the with block, the executor *)
(*             joins its workers), "returned", "printed", "failed"          *)
(*   kind      index in Kinds of the batch submitted last, 0 before the     *)
(*             first                                                        *)
(*   batch     the input records of each kind                               *)
(*   wpc       position of the worker running _insert_record on record i    *)
(*   outcome   the results of the finished futures                          *)
(*   rowid     cursor.lastrowid of each worker                              *)
(*   collected the futures as_completed has yielded                         *)
(*   acc       the list the comprehension is building                       *)
(*   results   the results dict                                             *)
(*   lock      0, or the worker holding DatabaseManager._lock               *)
(*   store     the committed rows of each table, as references to records   *)
(*   faults    storage failures so far                                      *)
(*   errors    top-level "An error occured" messages printed                *)
(*   printed   result lines printed per kind                                *)
(***************************************************************************)
VARIABLES setup, pc, kind, batch, wpc, outcome, rowid, collected, acc, results,
          lock, store, faults, errors, printed

vars == <<setup, pc, kind, batch, wpc, outcome, rowid, collected, acc, results,
          lock, store, faults, errors, printed>>

Workers == DOMAIN wpc
K == Kinds[kind]

Init ==
    /\ setup = "pending"
    /\ pc = "create_tables"
    /\ kind = 0
    /\ batch = [k \in KindSet |-> <<>>]
    /\ wpc = <<>>
    /\ outcome = <<>>
    /\ rowid = <<>>
    /\ collected = {}
    /\ acc = <<>>
    /\ results = [k \in KindSet |-> <<>>]
    /\ lock = 0
    /\ store = [k \in KindSet |-> <<>>]
    /\ faults = 0
    /\ errors = 0
    /\ printed = [k \in KindSet |-> 0]

(***************************************************************************)
(* Outcomes of _insert_record.  record is the reference to the input dict:  *)
(* its index in the batch.                                                  *)
(***************************************************************************)
ValidationErrorOutcome(i, e) == [record |-> i, status |-> "validation_error", error |-> e]
\* str(e) of a sqlite3.Error, whatever the operation that raised it.
StorageMessage == "sqlite3.Error"
InsertionErrorOutcome(i) ==
    [record |-> i, status |-> "insertion_error", error |-> Err(StorageMessage, PyNone)]
\* A faulty SuccessOutcome: the success outcome also carries an error text.
SuccessOutcomeWithError(i, id) ==
    [record |-> i, status |-> "success", rowid |-> id, error |-> Err("Success", PyNone)]

SuccessOutcome(i, id) == [record |-> i, status |-> "success", rowid |-> id]

\* The future of worker i completes with a result.
SetResult(i, o) ==
    /\ wpc' = [wpc EXCEPT ![i] = "done"]
    /\ outcome' = outcome @@ (i :> o)

\* The future of worker i completes with an exception.
SetException(i) ==
    /\ wpc' = [wpc EXCEPT ![i] = "raised"]
    /\ UNCHANGED outcome

\* A faulty ReleaseLock: the lock is kept when the with block is left.
ReleaseLockForgotten(i) == lock' = lock

\* Leaving "with cls._lock": the lock is released.
ReleaseLock(i) == lock' = 0

\* A faulty AcquireLock: the write section is entered without waiting.
AcquireLockNoWait(i) == lock' = i

\* Entering "with cls._lock": blocks until the lock is free.
AcquireLock(i) == lock = 0 /\ lock' = i

Running == {j \in Workers : wpc[j] \notin {"queued", "done", "raised"}}

(***************************************************************************)
(* DatabaseManager._insert_record, one action per step of worker i.         *)
(***************************************************************************)
\* A faulty Rejected: the validation result is ignored.
RejectedNever(v) == FALSE

\* "if validation_error:" (line 88): a message was returned.
Rejected(v) == v.code \notin {"ok", "raise"}

\* A faulty Validate: validation runs inside the lock's with block.
ValidateUnderLock(i) ==
    /\ wpc[i] = "queued"
    /\ Cardinality(Running) < max_workers
    /\ lock = 0
    /\ LET v == ValidationFunc(K, batch[K][i]) IN
        IF v.code = "raise" THEN SetException(i)
        ELSE IF Rejected(v) THEN SetResult(i, ValidationErrorOutcome(i, v))
        ELSE wpc' = [wpc EXCEPT ![i] = "acquire"] /\ UNCHANGED outcome
    /\ UNCHANGED <<setup, pc, kind, batch, rowid, collected, acc, results, lock, store,
                   faults, errors, printed>>

\* Lines 87-93: run the validation function; return the validation_error
\* outcome, let its exception end the future, or go on to the lock.
Validate(i) ==
    /\ wpc[i] = "queued"
    /\ Cardinality(Running) < max_workers
    /\ LET v == ValidationFunc(K, batch[K][i]) IN
        IF v.code = "raise" THEN SetException(i)
        ELSE IF Rejected(v) THEN SetResult(i, ValidationErrorOutcome(i, v))
        ELSE wpc' = [wpc EXCEPT ![i] = "acquire"] /\ UNCHANGED outcome
    /\ UNCHANGED <<setup, pc, kind, batch, rowid, collected, acc, results, lock, store,
                   faults, errors, printed>>

\* A faulty Acquire: the connection is opened without taking the lock.
AcquireSkipped(i) ==
    /\ wpc[i] = "acquire"
    /\ wpc' = [wpc EXCEPT ![i] = "connect"]
    /\ UNCHANGED <<setup, pc, kind, batch, outcome, rowid, collected, acc, results, lock,
                   store, faults, errors, printed>>

\* Line 96, first context manager: cls._lock.
Acquire(i) ==
    /\ wpc[i] = "acquire"
    /\ AcquireLock(i)
    /\ wpc' = [wpc EXCEPT ![i] = "connect"]
    /\ UNCHANGED <<setup, pc, kind, batch, outcome, rowid, collected, acc, results, store,
                   faults, errors, printed>>

\* Line 96, second context manager: sqlite3.connect(db_path) succeeds.
Connect(i) ==
    /\ wpc[i] = "connect"
    /\ wpc' = [wpc EXCEPT ![i] = "execute"]
    /\ UNCHANGED <<setup, pc, kind, batch, outcome, rowid, collected, acc, results, lock,
                   store, faults, errors, printed>>

\* A faulty StorageError: the storage error is not caught and ends the future.
StorageErrorPropagates(i, at) ==
    /\ wpc[i] = at
    /\ faults < MaxFaults
    /\ faults' = faults + 1
    /\ ReleaseLock(i)
    /\ SetException(i)
    /\ UNCHANGED <<setup, pc, kind, batch, rowid, collected, acc, results, store, errors,
                   printed>>

\* A faulty StorageError: the rollback also undoes the rows committed before.
StorageErrorRollsBackAll(i, at) ==
    /\ wpc[i] = at
    /\ faults < MaxFaults
    /\ faults' = faults + 1
    /\ ReleaseLock(i)
    /\ SetResult(i, InsertionErrorOutcome(i))
    /\ store' = [store EXCEPT ![K] = <<>>]
    /\ UNCHANGED <<setup, pc, kind, batch, rowid, collected, acc, results, errors, printed>>

\* A storage-layer error (sqlite3.Error) at connect, execute or commit: the
\* with block is left (the open transaction is rolled back, the lock is
\* released) and lines 110-115 return the insertion_error outcome.
StorageError(i, at) ==
    /\ wpc[i] = at
    /\ faults < MaxFaults
    /\ faults' = faults + 1
    /\ ReleaseLock(i)
    /\ SetResult(i, InsertionErrorOutcome(i))
    /\ UNCHANGED <<setup, pc, kind, batch, rowid, collected, acc, results, store, errors,
                   printed>>

ConnectFail(i) == StorageError(i, "connect")
ExecuteFail(i) == StorageError(i, "execute")
CommitFail(i) == StorageError(i, "commit")

\* Binding a value: an int outside 64 bits raises OverflowError, which is
\* not a sqlite3.Error.
Bindable(record) == \A c \in DOMAIN record : record[c].t # "bigint"

\* Lines 97-102: build the INSERT and execute it in the connection's
\* transaction; lastrowid is the next row of the table.
Execute(i) ==
    /\ wpc[i] = "execute"
    /\ IF Bindable(batch[K][i])
       THEN /\ rowid' = [rowid EXCEPT ![i] = Len(store[K]) + 1]
            /\ wpc' = [wpc EXCEPT ![i] = "commit"]
            /\ UNCHANGED <<outcome, lock>>
       ELSE /\ ReleaseLock(i)
            /\ SetException(i)
            /\ UNCHANGED rowid
    /\ UNCHANGED <<setup, pc, kind, batch, collected, acc, results, store, faults, errors,
                   printed>>

\* A faulty Committed: the commit does not persist the row.
CommitLost(rows, i) == rows

\* The table after the transaction of worker i is committed.
Committed(rows, i) == Append(rows, i)

\* Line 103: conn.commit() makes the row durable.
Commit(i) ==
    /\ wpc[i] = "commit"
    /\ store' = [store EXCEPT ![K] = Committed(@, i)]
    /\ wpc' = [wpc EXCEPT ![i] = "return"]
    /\ UNCHANGED <<setup, pc, kind, batch, outcome, rowid, collected, acc, results, lock,
                   faults, errors, printed>>

\* Lines 105-109: return the success outcome; leaving the with block commits
\* nothing more and releases the lock.
Return(i) ==
    /\ wpc[i] = "return"
    /\ ReleaseLock(i)
    /\ SetResult(i, SuccessOutcome(i, rowid[i]))
    /\ UNCHANGED <<setup, pc, kind, batch, rowid, collected, acc, results, store, faults,
                   errors, printed>>

(***************************************************************************)
(* DatabaseManager.simulate_insertions and main.                            *)
(***************************************************************************)
\* Line 119, _create_tables succeeds.
CreateTables ==
    /\ pc = "create_tables"
    /\ setup' = "ok"
    /\ pc' = "submit"
    /\ UNCHANGED <<kind, batch, wpc, outcome, rowid, collected, acc, results, lock,
                   store, faults, errors, printed>>

\* A faulty CreateTablesFail: the failure is swallowed and the run goes on.
CreateTablesFailIgnored ==
    /\ pc = "create_tables"
    /\ setup' = "error"
    /\ pc' = "submit"
    /\ UNCHANGED <<kind, batch, wpc, outcome, rowid, collected, acc, results, lock,
                   store, faults, errors, printed>>

\* Line 119, _create_tables raises: the exception leaves simulate_insertions
\* and main prints it (lines 227-228).
CreateTablesFail ==
    /\ pc = "create_tables"
    /\ setup' = "error"
    /\ pc' = "failed"
    /\ errors' = errors + 1
    /\ UNCHANGED <<kind, batch, wpc, outcome, rowid, collected, acc, results, lock,
                   store, faults, printed>>

\* Records submitted so far in the run.
Submitted == Len(batch["users"]) + Len(batch["products"]) + Len(batch["orders"])

\* Lines 167-176 (179-188, 191-200): one future per record of the batch.  The
\* batch is an input: any records of the kind, every kind having at least one.
Submit ==
    /\ pc = "submit"
    /\ kind' = kind + 1
    /\ \E n \in 1..BatchSize : \E b \in Batches(Kinds[kind'], n) :
        /\ Submitted + n + (Len(Kinds) - kind') <= MaxRecords
        /\ batch' = [batch EXCEPT ![Kinds[kind']] = b]
        /\ wpc' = [i \in DOMAIN b |-> "queued"]
        /\ rowid' = [i \in DOMAIN b |-> 0]
    /\ outcome' = <<>>
    /\ collected' = {}
    /\ acc' = <<>>
    /\ pc' = "collect"
    /\ UNCHANGED <<setup, results, lock, store, faults, errors, printed>>

\* A faulty Yield: only the successful outcomes are kept.
YieldSuccessOnly(list, i) ==
    IF outcome[i].status = "success" THEN Append(list, outcome[i]) ELSE list

\* The comprehension's list after future.result() of future i is appended.
Yield(list, i) == Append(list, outcome[i])

\* Where the run goes once every future of the kind is collected.
AfterKind == IF kind < Len(Kinds) THEN "submit" ELSE "returned"

\* A faulty KindDone: the list is closed at the first future collected.
KindDoneEarly(c) == c # {}

\* The comprehension over as_completed ends when every future of the kind
\* has been yielded.
KindDone(c) == c = Workers

\* Lines 177, 189, 201: as_completed yields a finished future and
\* future.result() is appended, or re-raises the worker's exception.  The
\* last future of the kind completes the list, which is stored in results;
\* after the orders the with block is left and results is returned.
Collect(i) ==
    /\ pc = "collect"
    /\ i \notin collected
    /\ wpc[i] \in {"done", "raised"}
    /\ IF wpc[i] = "raised"
       THEN /\ pc' = "shutdown"
            /\ UNCHANGED <<kind, collected, acc, results>>
       ELSE /\ collected' = collected \cup {i}
            /\ IF KindDone(collected')
               THEN /\ results' = [results EXCEPT ![K] = Yield(acc, i)]
                    /\ acc' = <<>>
                    /\ pc' = AfterKind
                    /\ UNCHANGED kind
               ELSE /\ acc' = Yield(acc, i)
                    /\ UNCHANGED <<pc, kind, results>>
    /\ UNCHANGED <<setup, batch, wpc, outcome, rowid, lock, store, faults, errors, printed>>

\* The exception leaves the with block of line 166: the executor waits for
\* its workers, then the exception leaves simulate_insertions and main
\* prints it (lines 227-228).
Shutdown ==
    /\ pc = "shutdown"
    /\ \A j \in Workers : wpc[j] \in {"done", "raised"}
    /\ pc' = "failed"
    /\ errors' = errors + 1
    /\ UNCHANGED <<setup, kind, batch, wpc, outcome, rowid, collected, acc, results, lock,
                   store, faults, printed>>

\* main, lines 209-225: one line per outcome of each kind.
PrintResults ==
    /\ pc = "returned"
    /\ printed' = [k \in KindSet |-> Len(results[k])]
    /\ pc' = "printed"
    /\ UNCHANGED <<setup, kind, batch, wpc, outcome, rowid, collected, acc, results, lock,
                   store, faults, errors>>

Next ==
    \/ CreateTables
    \/ CreateTablesFail
    \/ Submit
    \/ \E i \in Workers : Validate(i)
    \/ \E i \in Workers : Acquire(i)
    \/ \E i \in Workers : Connect(i)
    \/ \E i \in Workers : ConnectFail(i)
    \/ \E i \in Workers : Execute(i)
    \/ \E i \in Workers : ExecuteFail(i)
    \/ \E i \in Workers : Commit(i)
    \/ \E i \in Workers : CommitFail(i)
    \/ \E i \in Workers : Return(i)
    \/ \E i \in Workers : Collect(i)
    \/ Shutdown
    \/ PrintResults

Spec == Init /\ [][Next]_vars

\* Threads that can run do run: the scheduler starves no thread.
FairSpec == Spec /\ WF_vars(Next)

(***************************************************************************)
(* One call of DatabaseManager._insert_record on any record.  The record's *)
(* fields range over values of every type a dict can hold under the keys   *)
(* the validation functions read: ints on both sides of zero, bools,       *)
(* floats, strs, None, an absent key.                                      *)
(***************************************************************************)
IdValues ==
    { PyInt(1), PyInt(0), PyInt(-1), BigInt, PyBool(TRUE), PyBool(FALSE), PyFloat(1),
      PyStr(<<"1">>), PyNone, Missing }
UserNameValues ==
    { PyStr(Alice),
      PyStr(<<"A", "l", " ", "b">>),
      PyStr(<<" ", "A", "l", " ">>),
      PyStr(<<"A", "l", " ", " ", "b">>),
      PyStr(<<"A", "l", "\t", "b">>),
      PyStr(<<"A", "l", "\n", "b">>),
      PyStr(<<"A", "l", "1">>),
      PyStr(<<"A", "l", ".">>),
      PyStr(<<" ", " ">>),
      PyStr(<<>>), PyNone, Missing, PyInt(5) }
EmailValues ==
    { PyStr(AliceMail),
      PyStr(<<" ", "A", "l", "@", "b", ".", "c", "d", " ">>),
      PyStr(<<"1", ".", "l", "@", "b", "-", "1", ".", "c", "d">>),
      PyStr(<<"A", "l", "@", "@", "b", ".", "c", "d">>),
      PyStr(<<"A", "l", "@", "b", ".", "c">>),
      PyStr(<<"A", "l", "@", "b">>),
      PyStr(<<>>), PyNone, Missing }
ProductNameValues ==
    { PyStr(<<"A", "l", " ", "1">>), PyStr(Alice), PyStr(<<"A", "l", ".">>),
      PyStr(<<>>), PyNone, Missing }
PriceValues ==
    { PyFloat(5), PyFloat(0), PyFloat(-5), PyInt(5), PyInt(-1), PyBool(TRUE),
      PyStr(<<"1", "5">>), PyStr(<<"1", ".", "5">>), PyStr(<<" ", "5", " ">>),
      PyStr(<<"+", "1">>), PyStr(<<"-", "1">>), PyStr(<<"-", "0">>),
      PyStr(<<"-", "0", ".", "5">>), PyStr(<<"1", ".", "5", ".", "1">>),
      PyStr(<<"A", "b", "c">>), PyStr(<<"-">>), PyStr(<<>>), PyNone, Missing }
RefValues == { PyInt(1), PyInt(0), PyInt(-1), PyFloat(1), PyStr(<<"1">>), Missing }
QuantityValues ==
    { PyInt(1), PyInt(0), PyInt(-1), PyBool(TRUE), PyFloat(1), PyStr(<<"1">>), Missing }

\* The records of kind k built from these values.
AnyRecords(k) ==
    CASE k = "users" ->
            {User(id, name, email) : id \in IdValues, name \in UserNameValues,
                                     email \in EmailValues}
      [] k = "products" ->
            {Product(id, name, price) : id \in IdValues, name \in ProductNameValues,
                                        price \in PriceValues}
      [] k = "orders" ->
            {Order(id, user_id, product_id, quantity) :
                id \in IdValues, user_id \in RefValues, product_id \in RefValues,
                quantity \in QuantityValues}

\* _insert_record is entered with one record of one kind; the tables exist
\* and are empty, the lock is free.
InitInsert ==
    /\ setup = "ok"
    /\ pc = "collect"
    /\ kind \in DOMAIN Kinds
    /\ \E r \in AnyRecords(K) : batch = [k \in KindSet |-> IF k = K THEN <<r>> ELSE <<>>]
    /\ wpc = <<"queued">>
    /\ outcome = <<>>
    /\ rowid = <<0>>
    /\ collected = {}
    /\ acc = <<>>
    /\ results = [k \in KindSet |-> <<>>]
    /\ lock = 0
    /\ store = [k \in KindSet |-> <<>>]
    /\ faults = 0
    /\ errors = 0
    /\ printed = [k \in KindSet |-> 0]

\* The steps of the call, up to its return or its exception.
NextInsert ==
    \/ \E i \in Workers : Validate(i)
    \/ \E i \in Workers : Acquire(i)
    \/ \E i \in Workers : Connect(i)
    \/ \E i \in Workers : ConnectFail(i)
    \/ \E i \in Workers : Execute(i)
    \/ \E i \in Workers : ExecuteFail(i)
    \/ \E i \in Workers : Commit(i)
    \/ \E i \in Workers : CommitFail(i)
    \/ \E i \in Workers : Return(i)

InsertSpec == InitInsert /\ [][NextInsert]_vars

(***************************************************************************)
(* Properties.                                                              *)
(***************************************************************************)
InWriteSection(i) == wpc[i] \in {"connect", "execute", "commit", "return"}
Finished(i) == wpc[i] \in {"done", "raised"}
RunReturned == pc \in {"returned", "printed"}
\* What the validation function of kind k does on each sample record, and on
\* record i of the batch of kind k.
Verdicts == [k \in KindSet |-> [r \in Samples(k) |-> ValidationFunc(k, r)]]
Verdict(k, i) == Verdicts[k][batch[k][i]]
\* The validation function returned an error message for record i of kind k.
ReturnedError(k, i) == Verdict(k, i).code \notin {"ok", "raise"}
\* The outcomes of kind k that are known: the returned list, or while the
\* kind is being processed the results of its finished futures.
KindInFlight(k) == Workers # {} /\ K = k /\ pc \in {"collect", "shutdown", "failed"}
Known(k) == IF KindInFlight(k) THEN DOMAIN outcome ELSE 1..Len(results[k])
Out(k, n) == IF KindInFlight(k) THEN outcome[n] ELSE results[k][n]
WithStatus(k, st) == {n \in Known(k) : Out(k, n).status = st}

\* C1: a row is in a store only if the validation function of its kind
\* returned no error for its record; a worker whose record got an error
\* message never enters the write section and its outcome is validation_error.
C1_WrittenOnlyIfValid ==
    /\ \A k \in KindSet : \A n \in 1..Len(store[k]) :
          Verdict(k, store[k][n]).code = "ok"
    /\ \A i \in Workers : ReturnedError(K, i) =>
          /\ wpc[i] \in {"queued", "done"}
          /\ lock # i
          /\ wpc[i] = "done" =>
                /\ outcome[i].status = "validation_error"
                /\ outcome[i].error = Verdict(K, i)
\* C1 happens: one record was rejected while another one of the batch was written.
C1_Witness ==
    \E i \in Workers :
        /\ ReturnedError(K, i)
        /\ wpc[i] = "done"
        /\ store[K] # <<>>

\* C2: at most one worker is between acquiring the lock and leaving the with
\* block, and that worker is the holder of the one lock of the class.
C2_MutualExclusion ==
    /\ Cardinality({i \in Workers : InWriteSection(i)}) <= 1
    /\ \A i \in Workers : InWriteSection(i) <=> lock = i
    /\ lock \in Workers \cup {0}
\* C2 happens: a worker is about to commit while another one waits for the lock.
C2_Witness ==
    \E i, j \in Workers : i # j /\ wpc[i] = "commit" /\ wpc[j] = "acquire"

\* C3: when the run has returned, the result list of each kind has as many
\* outcomes as the batch has records and references every record exactly once.
C3_OneOutcomePerRecord ==
    RunReturned =>
        \A k \in KindSet :
            /\ Len(batch[k]) \in 1..BatchSize
            /\ Len(results[k]) = Len(batch[k])
            /\ \A i \in 1..Len(batch[k]) :
                  Cardinality({n \in 1..Len(results[k]) : results[k][n].record = i}) = 1
\* C3 happens: the run returned with outcomes out of submission order, one
\* of them an error.
C3_Witness ==
    /\ RunReturned
    /\ results["users"][1].record = 2
    /\ results["users"][1].status = "success"
    /\ results["users"][2].status = "validation_error"

\* C4 (as claimed): a worker that fails unexpectedly does not end the run:
\* the run is never aborted over a raised future, and a returned run holds an
\* insertion_error outcome for every record whose validation raised.
C4_WorkerFailureConverted ==
    /\ pc \in {"shutdown", "failed"} => \A i \in Workers : wpc[i] # "raised"
    /\ RunReturned =>
          \A k \in KindSet : \A i \in 1..Len(batch[k]) :
              Verdict(k, i).code = "raise" =>
                  \E n \in 1..Len(results[k]) :
                      /\ results[k][n].record = i
                      /\ results[k][n].status = "insertion_error"

InsertionErrors(k) == WithStatus(k, "insertion_error")
\* C5: every storage-layer error became exactly one insertion_error outcome
\* that carries the error's message; a storage error never aborts the run
\* (an abort comes only from a provisioning failure or a raised future); and
\* a run that saw a storage error and returned has an outcome for every
\* record of every batch.
C5_StorageErrorIsPerRecord ==
    /\ Cardinality(InsertionErrors("users")) + Cardinality(InsertionErrors("products"))
          + Cardinality(InsertionErrors("orders")) = faults
    /\ \A k \in KindSet : \A n \in InsertionErrors(k) :
          Out(k, n).error.code = StorageMessage
    /\ pc \in {"shutdown", "failed"} =>
          \/ setup = "error"
          \/ \E i \in Workers : wpc[i] = "raised"
    /\ RunReturned =>
          \A k \in KindSet : {results[k][n].record : n \in 1..Len(results[k])}
                                = 1..Len(batch[k])
\* C5 happens: the first user failed in storage, the second one was inserted
\* and the later batches were processed.
C5_Witness ==
    /\ RunReturned
    /\ Len(batch["users"]) = 2
    /\ \E n \in 1..2 : results["users"][n].status = "insertion_error"
    /\ \E n \in 1..2 : results["users"][n].status = "success"
    /\ Len(results["products"]) > 0
    /\ Len(results["orders"]) > 0

ResultsComplete == \A k \in KindSet : Len(results[k]) = Len(batch[k]) /\ Len(batch[k]) > 0
\* C6 (as claimed): once a batch is submitted, the run eventually returns
\* with the result lists of the three kinds complete.
C6_RunEventuallyReturns == (pc = "collect") ~> (RunReturned /\ ResultsComplete)

Rows(k) == {store[k][n] : n \in 1..Len(store[k])}
Quiescent(k) == KindInFlight(k) => \A i \in Workers : Finished(i)
\* C7: once the workers of a store are finished, its table holds exactly one
\* row per success outcome and no other row: the rows are distinct records,
\* the records of the rows are those of the success outcomes, and the row
\* identifier of a success outcome is the place of its record's row.
C7_RowsMatchSuccesses ==
    \A k \in KindSet :
        /\ Cardinality(Rows(k)) = Len(store[k])
        /\ Quiescent(k) =>
              /\ Len(store[k]) = Cardinality(WithStatus(k, "success"))
              /\ Rows(k) = {Out(k, n).record : n \in WithStatus(k, "success")}
              /\ \A n \in WithStatus(k, "success") :
                    store[k][Out(k, n).rowid] = Out(k, n).record
\* C7 happens: two users were inserted concurrently, the second one first.
C7_Witness ==
    /\ RunReturned
    /\ store["users"] = <<2, 1>>
    /\ Cardinality(WithStatus("users", "success")) = 2

BadProductId(o) == ~PositiveInt(Get(o, "product_id"))
\* C8 (as claimed): an order whose product_id is not a positive integer is
\* rejected with the product ID error and is not in the orders table.
C8_OrderProductIdChecked ==
    /\ \A i \in Rows("orders") : ~BadProductId(batch["orders"][i])
    /\ KindInFlight("orders") =>
          \A i \in Workers : BadProductId(batch["orders"][i]) => wpc[i] \in {"queued", "done"}
    /\ \A n \in Known("orders") :
          LET o == batch["orders"][Out("orders", n).record] IN
          (/\ PositiveInt(Get(o, "id"))
           /\ PositiveInt(Get(o, "user_id"))
           /\ IsInstanceInt(Get(o, "quantity"))
           /\ BadProductId(o))
          => /\ Out("orders", n).status = "validation_error"
             /\ Out("orders", n).error.code = "Invalid product ID"

\* C9: after a provisioning failure no record was submitted, validated or
\* inserted, no outcome exists or was printed, and the failure was printed
\* once.
C9_ProvisioningFailureIsFatal ==
    setup = "error" =>
        /\ pc = "failed"
        /\ errors = 1
        /\ Workers = {}
        /\ \A k \in KindSet :
              /\ batch[k] = <<>>
              /\ store[k] = <<>>
              /\ results[k] = <<>>
              /\ printed[k] = 0
        /\ outcome = <<>>
        /\ acc = <<>>
\* C9 happens: provisioning failed.
C9_Witness == setup = "error" /\ errors = 1

WellFormedOutcome(k, o) ==
    /\ {"record", "status"} \subseteq DOMAIN o
    /\ o.record \in 1..Len(batch[k])
    /\ o.status \in {"success", "validation_error", "insertion_error"}
    /\ o.status = "success" <=> ("rowid" \in DOMAIN o /\ "error" \notin DOMAIN o)
    /\ o.status \in {"validation_error", "insertion_error"}
          <=> ("error" \in DOMAIN o /\ "rowid" \notin DOMAIN o)
    /\ "rowid" \in DOMAIN o => o.rowid \in 1..Len(store[k])
    /\ "error" \in DOMAIN o => o.error.code \notin {"ok", "raise"}
\* C10: every outcome references a record of its batch and has one of the
\* three statuses; it has a row identifier and no error exactly when the
\* status is success, and an error and no row identifier exactly when the
\* status is one of the two error statuses.
C10_OutcomeShape ==
    /\ \A i \in DOMAIN outcome : WellFormedOutcome(K, outcome[i]) /\ outcome[i].record = i
    /\ \A n \in 1..Len(acc) : WellFormedOutcome(K, acc[n])
    /\ \A k \in KindSet : \A n \in 1..Len(results[k]) : WellFormedOutcome(k, results[k][n])
\* C10 happens: a returned list holds a success, and an error of each kind
\* has been produced in the run.
C10_Witness ==
    /\ RunReturned
    /\ WithStatus("users", "success") # {}
    /\ WithStatus("users", "validation_error") # {}
    /\ WithStatus("products", "insertion_error") # {}

(***************************************************************************)
(* The validation rules as the specification words them, field by field,   *)
(* written without the code's regular expressions.                         *)
(***************************************************************************)
\* A positive integer (bool is an int in Python: True is 1).
ValidId(v) == v.t \in {"int", "bool", "bigint"} /\ v.n >= 1
\* One or more runs of letters separated by single spaces, once trimmed.
SingleSpaced(s) ==
    /\ s # <<>>
    /\ \A n \in 1..Len(s) : s[n] \in Letters \/ s[n] = " "
    /\ s[1] # " " /\ s[Len(s)] # " "
    /\ \A n \in 1..(Len(s) - 1) : ~(s[n] = " " /\ s[n + 1] = " ")
ValidUserName(v) == v.t = "str" /\ SingleSpaced(Strip(v.s))
\* local-part@domain.tld: the local part of letters, digits, dot, percent,
\* plus, hyphen; the domain of letters, digits, hyphen, dot; the last label
\* two or more letters.
LastIndex(s, c) == CHOOSE n \in 0..Len(s) :
    /\ n > 0 => s[n] = c
    /\ \A m \in (n + 1)..Len(s) : s[m] # c
EmailShape(s) ==
    LET at == LastIndex(s, "@")
        dot == LastIndex(s, ".")
    IN  /\ Count(s, "@") = 1
        /\ at > 1
        /\ \A n \in 1..(at - 1) : s[n] \in Letters \cup Digits \cup {".", "%", "+", "-"}
        /\ dot > at + 1
        /\ \A n \in (at + 1)..(dot - 1) : s[n] \in Letters \cup Digits \cup {"-", "."}
        /\ Len(s) >= dot + 2
        /\ \A n \in (dot + 1)..Len(s) : s[n] \in Letters
ValidEmail(v) == v.t = "str" /\ EmailShape(Strip(v.s))
\* Letters, digits and spaces only, and not empty.
ValidProductName(v) ==
    /\ v.t = "str"
    /\ Strip(v.s) # <<>>
    /\ \A n \in 1..Len(v.s) : v.s[n] \in Letters \cup Digits \cup {" "}
\* What float() makes of each price of PriceValues: a number that is zero or
\* more, a number below zero, or no number at all.
NonNegativePrices ==
    { PyFloat(5), PyFloat(0), PyInt(5), PyBool(TRUE), PyStr(<<"1", "5">>),
      PyStr(<<"1", ".", "5">>), PyStr(<<" ", "5", " ">>), PyStr(<<"+", "1">>),
      PyStr(<<"-", "0">>) }
NegativePrices ==
    { PyFloat(-5), PyInt(-1), PyStr(<<"-", "1">>), PyStr(<<"-", "0", ".", "5">>) }
NonNumericPrices ==
    { PyStr(<<"1", ".", "5", ".", "1">>), PyStr(<<"A", "b", "c">>), PyStr(<<"-">>),
      PyStr(<<>>), PyNone, Missing }
ValidQuantity(v) == v.t \in {"int", "bool", "bigint"}
\* Record r satisfies every rule of kind k.
ValidRecord(k, r) ==
    CASE k = "users" -> ValidId(r.id) /\ ValidUserName(r.name) /\ ValidEmail(r.email)
      [] k = "products" ->
            ValidId(r.id) /\ ValidProductName(r.name) /\ r.price \in NonNegativePrices
      [] k = "orders" ->
            /\ ValidId(r.id) /\ ValidId(r.user_id) /\ ValidId(r.product_id)
            /\ ValidQuantity(r.quantity)

\* C11 (as claimed): a record that satisfies every validation rule of its
\* kind gets no error from its validation function, and its insert ends with
\* a success outcome that carries a row identifier.
C11_ValidRecordInserted ==
    \A i \in Workers : ValidRecord(K, batch[K][i]) =>
        /\ ValidationFunc(K, batch[K][i]) = Pass
        /\ Finished(i) =>
              /\ wpc[i] = "done"
              /\ outcome[i].status = "success"
              /\ outcome[i].rowid >= 1
\* C11 (amended): a record that satisfies every validation rule of its kind
\* gets no error from its validation function and never a validation_error
\* outcome; when no storage operation of the insert fails its outcome is
\* success with the row identifier of its committed row; a storage-layer
\* error gives insertion_error with nothing committed, and only a value the
\* store cannot bind makes the insert raise.
C11_ValidRecordInsertedUnlessStorageFails ==
    \A i \in Workers : ValidRecord(K, batch[K][i]) =>
        /\ ValidationFunc(K, batch[K][i]) = Pass
        /\ wpc[i] = "done" =>
              /\ outcome[i].status \in {"success", "insertion_error"}
              /\ faults = 0 => outcome[i].status = "success"
              /\ outcome[i].status = "success" =>
                    outcome[i].rowid >= 1 /\ store[K] = <<i>>
              /\ outcome[i].status = "insertion_error" => store[K] = <<>>
        /\ wpc[i] = "raised" => ~Bindable(batch[K][i]) /\ store[K] = <<>>
\* C11 happens: a valid user whose name has two words was inserted.
C11_Witness ==
    \E i \in Workers :
        /\ K = "users"
        /\ ValidRecord(K, batch[K][i])
        /\ batch[K][i].name = PyStr(<<"A", "l", " ", "b">>)
        /\ wpc[i] = "done"
        /\ outcome[i].status = "success"

\* The message a validation function of kind k returns for a bad id.
IdError(k) ==
    CASE k = "users" -> "Invalid user ID"
      [] k = "products" -> "Invalid product ID"
      [] k = "orders" -> "Invalid order ID"
\* C12: a record of any kind whose id is missing, not an integer, zero or
\* negative gets from its validation function the id error naming that id,
\* whatever its other fields hold; its insert never reaches the lock, writes
\* nothing and returns the validation_error outcome with that message.
C12_BadIdRejected ==
    \A i \in Workers :
        LET r == batch[K][i]
            v == ValidationFunc(K, r)
        IN  ~ValidId(r.id) =>
              /\ v = Err(IdError(K), Get(r, "id"))
              /\ wpc[i] \in {"queued", "done"}
              /\ lock = 0 /\ store[K] = <<>>
              /\ wpc[i] = "done" => outcome[i] = ValidationErrorOutcome(i, v)
\* C12 happens: a user with the float id 1.0 and a name that is not a str
\* got the validation_error outcome.
C12_Witness ==
    \E i \in Workers :
        /\ K = "users"
        /\ batch[K][i].id = PyFloat(1)
        /\ batch[K][i].name = PyNone
        /\ wpc[i] = "done"
        /\ outcome[i].status = "validation_error"

\* C13: for a product with a valid id and name, a price float() cannot
\* convert gets the "Must be a number" error, a numeric price below zero the
\* distinct "Price must be non-negative" error, and a numeric price of zero
\* or more passes validation; each error names the price.
C13_PriceRule ==
    \A i \in Workers :
        LET r == batch[K][i]
            v == ValidationFunc(K, r)
        IN  (K = "products" /\ ValidId(r.id) /\ ValidProductName(r.name)) =>
              /\ r.price \in NonNumericPrices \cup NegativePrices \cup NonNegativePrices
              /\ r.price \in NonNumericPrices =>
                    v = Err("Invalid price: Must be a number", Get(r, "price"))
              /\ r.price \in NegativePrices =>
                    v = Err("Invalid price: Price must be non-negative", Get(r, "price"))
              /\ r.price \in NonNegativePrices => v = Pass
              /\ wpc[i] = "done" /\ r.price \notin NonNegativePrices =>
                    outcome[i] = ValidationErrorOutcome(i, v)
\* C13 happens: the price '-0.5' was rejected as negative.
C13_Witness ==
    \E i \in Workers :
        /\ K = "products"
        /\ ValidId(batch[K][i].id) /\ ValidProductName(batch[K][i].name)
        /\ batch[K][i].price = PyStr(<<"-", "0", ".", "5">>)
        /\ wpc[i] = "done"
        /\ outcome[i].error.code = "Invalid price: Price must be non-negative"

\* C14 (as claimed): once the name check of a user with a valid id has run,
\* the name has passed it exactly when, trimmed, it is one or more runs of
\* letters separated by single spaces; any other name (a digit, punctuation,
\* two whitespace characters in a row, a tab or a newline between letters)
\* ends the insert with the validation_error naming the trimmed name.
C14_NameRule ==
    \A i \in Workers :
        LET r == batch[K][i]
            name == GetOrEmpty(r, "name")
        IN  (K = "users" /\ ValidId(r.id) /\ name.t = "str" /\ wpc[i] # "queued") =>
              IF ValidUserName(name)
              THEN (wpc[i] = "done" /\ outcome[i].status = "validation_error") =>
                      outcome[i].error.code # "Invalid name"
              ELSE /\ wpc[i] = "done"
                   /\ outcome[i] =
                         ValidationErrorOutcome(i, Err("Invalid name", PyStr(Strip(name.s))))

\* The message of the first rule record r of kind k breaks, taking the
\* fields in the order id, name/user_id, email/product_id, price/quantity;
\* "ok" when it breaks none.
FirstError(k, r) ==
    CASE k = "users" ->
            IF ~ValidId(r.id) THEN "Invalid user ID"
            ELSE IF ~ValidUserName(r.name) THEN "Invalid name"
            ELSE IF ~ValidEmail(r.email) THEN "Invalid email"
            ELSE "ok"
      [] k = "products" ->
            IF ~ValidId(r.id) THEN "Invalid product ID"
            ELSE IF ~ValidProductName(r.name) THEN "Invalid product name"
            ELSE IF r.price \in NonNumericPrices THEN "Invalid price: Must be a number"
            ELSE IF r.price \in NegativePrices
                 THEN "Invalid price: Price must be non-negative"
            ELSE "ok"
      [] k = "orders" ->
            IF ~ValidId(r.id) THEN "Invalid order ID"
            ELSE IF ~ValidId(r.user_id) THEN "Invalid user ID"
            ELSE IF ~ValidId(r.product_id) THEN "Invalid product ID"
            ELSE IF ~ValidQuantity(r.quantity) THEN "Invalid quanitty"
            ELSE "ok"
\* C15 (as claimed): validation takes the fields in the order id,
\* name/user_id, email/product_id, price/quantity and returns the error of
\* the first failing check only: once validation has run, a record that
\* breaks a rule has the validation_error outcome whose message is the one
\* of the earliest field that breaks its rule, and a record that breaks none
\* has no validation_error outcome.
C15_FirstFailingCheck ==
    \A i \in Workers :
        LET first == FirstError(K, batch[K][i])
        IN  wpc[i] # "queued" =>
              IF first = "ok"
              THEN wpc[i] = "done" => outcome[i].status # "validation_error"
              ELSE /\ wpc[i] = "done"
                   /\ outcome[i].status = "validation_error"
                   /\ outcome[i].error.code = first

\* C16 (as claimed): connection setup is outside the lock, so a run gets to
\* a state in which one worker is opening its store connection while a
\* different worker holds the lock.
C16_ConnectOutsideLock ==
    <>(\E i \in Workers : \E j \in Workers :
          i # j /\ wpc[i] = "connect" /\ lock = j)
\* C16 (amended): the connection is opened inside the lock: a worker opening
\* its store connection is the holder of the lock and no other worker is in
\* its write section.  Validation is outside the lock: a worker that has not
\* validated its record yet can do so whoever holds the lock.
C16_ConnectUnderLock ==
    \A i \in Workers :
        /\ wpc[i] = "connect" =>
              /\ lock = i
              /\ \A j \in Workers \ {i} : ~InWriteSection(j)
        /\ wpc[i] = "queued" => ENABLED Validate(i)
\* C16 happens: a worker is opening its connection under the lock while
\* another one has its validation still to run.
C16_Witness ==
    \E i \in Workers : \E j \in Workers :
        i # j /\ wpc[i] = "connect" /\ lock = i /\ wpc[j] = "queued"

\* C17: the kinds are processed in separate phases.  While the batch of one
\* kind is being processed, every earlier kind has all its outcomes in its
\* result list and no later kind has been submitted, written or collected;
\* the next batch is submitted only when every worker has finished and its
\* outcome has been collected, so the workers in flight are of one kind.
C17_PhasesSeparated ==
    /\ \A n \in DOMAIN Kinds :
          /\ n < kind => Len(results[Kinds[n]]) = Len(batch[Kinds[n]])
          /\ n > kind =>
                /\ batch[Kinds[n]] = <<>>
                /\ store[Kinds[n]] = <<>>
                /\ results[Kinds[n]] = <<>>
    /\ pc = "submit" => \A i \in Workers : wpc[i] = "done" /\ i \in collected
    /\ (pc = "submit" /\ kind >= 1) => Len(results[K]) = Len(batch[K])
\* C17 happens: a product is in its write section, the two users' outcomes
\* are in their result list and no order exists yet.
C17_Witness ==
    /\ kind = 2
    /\ \E i \in Workers : InWriteSection(i)
    /\ Len(results["users"]) = 2
    /\ batch["orders"] = <<>>

\* C18: the lock is released whenever an insert leaves its write section, by
\* its return or by an error of the connection, the INSERT or the commit: the
\* holder of the lock is a worker inside its write section, a worker whose
\* future has completed does not hold it, and it is free between two batches
\* and when the run has returned or failed.
C18_LockReleased ==
    /\ \A i \in Workers : Finished(i) => lock # i
    /\ lock # 0 => lock \in Workers /\ InWriteSection(lock)
    /\ pc \in {"submit", "returned", "printed", "failed"} => lock = 0
\* C18 happens: a worker holds the lock after another one's insert ended
\* with a storage error before anything was committed.
C18_Witness ==
    \E i \in Workers : \E j \in Workers :
        /\ wpc[i] = "done"
        /\ outcome[i].status = "insertion_error"
        /\ store[K] = <<>>
        /\ lock = j
        /\ wpc[j] = "commit"

\* C19: a worker whose record fails validation never waits for the lock and
\* never holds it, and the step that produces its validation_error outcome
\* can be taken whoever holds the lock, leaving the lock as it is: it does
\* not depend on the holder ever releasing it.
C19_RejectedIgnoresLock ==
    \A i \in Workers : ReturnedError(K, i) =>
        /\ wpc[i] \notin {"acquire", "connect", "execute", "commit", "return", "raised"}
        /\ lock # i
        /\ wpc[i] = "queued" =>
              ENABLED (/\ Validate(i)
                       /\ wpc'[i] = "done"
                       /\ outcome'[i].status = "validation_error"
                       /\ lock' = lock)
\* C19 happens: a rejected record has its validation_error outcome while the
\* other worker of the batch holds the lock.
C19_Witness ==
    \E i \in Workers : \E j \in Workers :
        /\ ReturnedError(K, i)
        /\ wpc[i] = "done"
        /\ outcome[i].status = "validation_error"
        /\ i \notin collected
        /\ lock = j
        /\ wpc[j] = "connect"

\* C20: a step changes at most the store of the kind being processed, and
\* only by adding one row after the rows it holds: the other two stores stay
\* as they are and no committed row is removed, whatever fails later.  An
\* order that passes validation ends in success when no storage operation
\* fails, whatever the users and products stores hold.
C20_FrameEffect ==
    [][ /\ \A k \in KindSet :
              /\ Len(store'[k]) >= Len(store[k])
              /\ SubSeq(store'[k], 1, Len(store[k])) = store[k]
              /\ store'[k] # store[k] =>
                    /\ k = K /\ kind' = kind
                    /\ Len(store'[k]) = Len(store[k]) + 1
        /\ (kind = 3 /\ faults = 0) =>
              \A i \in Workers :
                  (wpc[i] = "done" /\ Verdict(K, i).code = "ok") =>
                      outcome[i].status = "success"
      ]_vars
\* C20 happens: an order that refers to user 1 was inserted although the
\* users store is empty, and the products store still holds its row.
C20_Witness ==
    /\ kind = 3
    /\ store["users"] = <<>>
    /\ store["products"] # <<>>
    /\ \E i \in Workers :
          /\ batch[K][i].user_id = PyInt(1)
          /\ wpc[i] = "done"
          /\ outcome[i].status = "success"
====
